---------------------------- MODULE Spec2Model ----------------------------
(***************************************************************************)
(* A model of kemet (src/main.rs): a recursive substring search over a    *)
(* directory tree.  Text is modelled as sequences of one-character         *)
(* strings, so that trimming, lowercasing, splitting, "contains" and the   *)
(* file-name extension are computed as the code computes them.             *)
(***************************************************************************)
EXTENDS Integers, Sequences, FiniteSets, TLC

(***************************************************************************)
(* Bounds of the model.                                                    *)
(***************************************************************************)
\* number of command-line tokens after the program name (SpecArgs)
MaxArgs == 4
\* length of the raw value of -e (SpecExt)
MaxExtLen == 4
\* number of lines of the file b.RS (SpecMatch)
MaxLines == 2
\* number of I/O failures the environment injects in one run (Spec)
MaxFaults == 3
\* number of I/O failures the environment injects in one run (SpecMatch)
MaxMatchFaults == 1

(***************************************************************************)
(* Text helpers: str::trim, str::starts_with, str::split,                  *)
(* str::to_lowercase, str::eq_ignore_ascii_case, str::contains.            *)
(***************************************************************************)
None == [some |-> FALSE]
Some(v) == [some |-> TRUE, val |-> v]

IsWhitespace(c) == c \in {" ", "\t"}

RECURSIVE TrimStart(_)
TrimStart(s) ==
    IF s # <<>> /\ IsWhitespace(Head(s)) THEN TrimStart(Tail(s)) ELSE s

RECURSIVE TrimEnd(_)
TrimEnd(s) ==
    IF s # <<>> /\ IsWhitespace(s[Len(s)])
    THEN TrimEnd(SubSeq(s, 1, Len(s) - 1))
    ELSE s

Trim(s) == TrimEnd(TrimStart(s))

StartsWith(s, p) == Len(p) <= Len(s) /\ SubSeq(s, 1, Len(p)) = p

\* s.split(sep): the pieces between the separators; "" gives one empty piece
RECURSIVE SplitFrom(_, _, _)
SplitFrom(s, sep, piece) ==
    IF s = <<>> THEN <<piece>>
    ELSE IF Head(s) = sep THEN <<piece>> \o SplitFrom(Tail(s), sep, <<>>)
    ELSE SplitFrom(Tail(s), sep, Append(piece, Head(s)))

Split(s, sep) == SplitFrom(s, sep, <<>>)

UpperChars ==
    <<"A","B","C","D","E","F","G","H","I","J","K","L","M",
      "N","O","P","Q","R","S","T","U","V","W","X","Y","Z">>
LowerChars ==
    <<"a","b","c","d","e","f","g","h","i","j","k","l","m",
      "n","o","p","q","r","s","t","u","v","w","x","y","z">>

ToLowerChar(c) ==
    IF \E i \in 1..Len(UpperChars) : UpperChars[i] = c
    THEN LowerChars[CHOOSE i \in 1..Len(UpperChars) : UpperChars[i] = c]
    ELSE c

to_lowercase(s) == [i \in 1..Len(s) |-> ToLowerChar(s[i])]

eq_ignore_ascii_case(a, b) ==
    /\ Len(a) = Len(b)
    /\ \A i \in 1..Len(a) : ToLowerChar(a[i]) = ToLowerChar(b[i])

\* str::contains: the pattern occurs at some offset of the text
contains(s, pat) ==
    \E k \in 0..(Len(s) - Len(pat)) : SubSeq(s, k + 1, k + Len(pat)) = pat

\* parts.join(sep)
RECURSIVE Join(_, _)
Join(parts, sep) ==
    IF parts = <<>> THEN <<>>
    ELSE IF Len(parts) = 1 THEN parts[1]
    ELSE parts[1] \o sep \o Join(Tail(parts), sep)

Digits == <<"0","1","2","3","4","5","6","7","8","9">>

\* the decimal text of a number, as "{}" formats a usize
RECURSIVE NatToStr(_)
NatToStr(n) ==
    IF n < 10 THEN <<Digits[n + 1]>>
    ELSE NatToStr(n \div 10) \o <<Digits[(n % 10) + 1]>>

(***************************************************************************)
(* The file system the program runs in.  Paths are texts.                  *)
(***************************************************************************)
Slash == <<"/">>
RootDir == <<"/","r">>
SubDir == <<"/","r","/","s","u","b">>
EmptyDir == <<"/","r","/","s","u","b","/","d",".","t","x","t">>
TmpDir == <<"/","t">>
MissingDir == <<"/","x">>

Name_a_txt == <<"a",".","t","x","t">>
Name_sub == <<"s","u","b">>
Name_c_md == <<"c",".","m","d">>
Name_dot_txt == <<".","t","x","t">>
Name_b_RS == <<"b",".","R","S">>
Name_d_txt == <<"d",".","t","x","t">>
Name_p_txt == <<"p",".","t","x","t">>
Name_n == <<"n">>
Name_o_txt == <<"o",".","t","x","t">>

PathJoin(dir, name) == dir \o Slash \o name

File_a == PathJoin(RootDir, Name_a_txt)
File_c == PathJoin(RootDir, Name_c_md)
File_hidden == PathJoin(RootDir, Name_dot_txt)
File_b == PathJoin(SubDir, Name_b_RS)
File_n == PathJoin(SubDir, Name_n)
Fifo_p == PathJoin(SubDir, Name_p_txt)

Dirs == {RootDir, SubDir, EmptyDir, TmpDir}
StaticFiles == {File_a, File_c, File_hidden, File_b, File_n}
Others == {Fifo_p}

IsAbsolute(p) == p # <<>> /\ Head(p) = "/"

\* a relative path is taken from the current directory
Absolute(p, cwdPath) == IF IsAbsolute(p) THEN p ELSE PathJoin(cwdPath, p)

\* the entries of a directory as the host enumerates them
StaticListing(dir) ==
    IF dir = RootDir THEN <<Name_a_txt, Name_sub, Name_c_md, Name_dot_txt>>
    ELSE IF dir = SubDir THEN <<Name_b_RS, Name_d_txt, Name_p_txt, Name_n>>
    ELSE <<>>

\* the last index of c in s, 0 when c does not occur
LastIndexOf(s, c) ==
    IF \E i \in 1..Len(s) : s[i] = c
    THEN CHOOSE i \in 1..Len(s) : s[i] = c /\ \A j \in (i + 1)..Len(s) : s[j] # c
    ELSE 0

ParentOf(p) == SubSeq(p, 1, LastIndexOf(p, "/") - 1)
FileName(p) == SubSeq(p, LastIndexOf(p, "/") + 1, Len(p))


(***************************************************************************)
(* Config::new: the command line, parsed into a Config or an error.        *)
(***************************************************************************)
Prog == <<"k","e","m","e","t">>
Tok_p == <<"-","p">>
Tok_path == <<"-","-","p","a","t","h">>
Tok_s == <<"-","s">>
Tok_search == <<"-","-","s","e","a","r","c","h">>
Tok_e == <<"-","e">>
Tok_extensions == <<"-","-","e","x","t","e","n","s","i","o","n","s">>
Tok_o == <<"-","o">>
Tok_output == <<"-","-","o","u","t","p","u","t">>
Tok_c == <<"-","c">>
Tok_case_sensitive == <<"-","-","c","a","s","e","-","s","e","n","s","i","t","i","v","e">>
Tok_l == <<"-","l">>
Tok_show_lines == <<"-","-","s","h","o","w","-","l","i","n","e","s">>
Tok_h == <<"-","h">>
Tok_help == <<"-","-","h","e","l","p">>

DefaultExtensions ==
    << <<".","t","x","t">>, <<".","j","s","o","n">>, <<".","c","s">>,
       <<".","s","q","l">>, <<".","c","o","n","f","i","g">>, <<".","r","s">>,
       <<".","p","y">>, <<".","j","s">>, <<".","t","s">>,
       <<".","h","t","m","l">>, <<".","c","s","s">>, <<".","x","m","l">> >>

\* args[i] of the code, whose indices start at 0
ArgAt(args, i) == args[i + 1]

Err(e) == [ok |-> FALSE, err |-> e]

usage == [msg |-> "usage"]

\* a faulty variant: a missing value is reported as an empty one
get_next_arg_WrongMessage(args, i, arg_name) ==
    IF i + 1 < Len(args)
    THEN LET value == ArgAt(args, i + 1) IN
         IF Trim(value) = <<>>
         THEN Err([msg |-> "Empty provided", name |-> arg_name])
         ELSE [ok |-> TRUE, value |-> value, i |-> i + 2]
    ELSE Err([msg |-> "Empty provided", name |-> arg_name])

get_next_arg(args, i, arg_name) ==
    IF i + 1 < Len(args)
    THEN LET value == ArgAt(args, i + 1) IN
         IF Trim(value) = <<>>
         THEN Err([msg |-> "Empty provided", name |-> arg_name])
         ELSE [ok |-> TRUE, value |-> value, i |-> i + 2]
    ELSE Err([msg |-> "Missing value for", name |-> arg_name])

\* a faulty variant: the dot is prepended whether or not there is one already
NormalizeExtension_AlwaysDot(s) == <<".">> \o Trim(s)

\* the closure mapped over the pieces of the -e value
NormalizeExtension(s) ==
    LET trimmed == Trim(s) IN
    IF StartsWith(trimmed, <<".">>) THEN trimmed ELSE <<".">> \o trimmed

ParseExtensions(ext_arg) ==
    LET pieces == Split(ext_arg, ",") IN
    [k \in 1..Len(pieces) |-> NormalizeExtension(pieces[k])]

\* Path::exists and Path::is_dir of a path given on the command line
PathExists(p, cwd) ==
    IF IsAbsolute(p) THEN p \in Dirs \cup StaticFiles \cup Others
    ELSE cwd.ok /\ PathJoin(cwd.path, p) \in Dirs \cup StaticFiles \cup Others

PathIsDir(p, cwd) ==
    IF IsAbsolute(p) THEN p \in Dirs
    ELSE cwd.ok /\ PathJoin(cwd.path, p) \in Dirs

resolve_path(path, cwd) ==
    LET useGiven ==
            /\ path.some
            /\ Trim(path.val) # <<>>
            /\ path.val # <<".">>
            /\ path.val # <<"*">>
    IN
    IF ~useGiven /\ ~cwd.ok
    THEN Err([msg |-> "Failed to get current directory"])
    ELSE LET path_str == IF useGiven THEN path.val ELSE cwd.path IN
         IF ~PathExists(path_str, cwd)
         THEN Err([msg |-> "Path does not exist", path |-> path_str])
         ELSE IF ~PathIsDir(path_str, cwd)
         THEN Err([msg |-> "Path is not a directory", path |-> path_str])
         ELSE [ok |-> TRUE, value |-> path_str]

\* the locals of Config::new before the loop
ParseStart ==
    [ path |-> None, search_text |-> None, extensions |-> None,
      case_sensitive |-> FALSE, show_line_content |-> FALSE,
      output_file |-> None ]

\* the while loop of Config::new, from index i with the locals acc
RECURSIVE ParseLoop(_, _, _)
ParseLoop(args, i, acc) ==
    IF ~(i < Len(args)) THEN [ok |-> TRUE, value |-> acc]
    ELSE LET tok == ArgAt(args, i) IN
      CASE tok \in {Tok_p, Tok_path} ->
             LET r == get_next_arg(args, i, "path") IN
             IF r.ok
             THEN ParseLoop(args, r.i, [acc EXCEPT !.path = Some(r.value)])
             ELSE [ok |-> FALSE, err |-> r.err, at |-> i]
        [] tok \in {Tok_s, Tok_search} ->
             LET r == get_next_arg(args, i, "search text") IN
             IF r.ok
             THEN ParseLoop(args, r.i, [acc EXCEPT !.search_text = Some(r.value)])
             ELSE [ok |-> FALSE, err |-> r.err, at |-> i]
        [] tok \in {Tok_e, Tok_extensions} ->
             LET r == get_next_arg(args, i, "extensions") IN
             IF r.ok
             THEN ParseLoop(args, r.i,
                    [acc EXCEPT !.extensions = Some(ParseExtensions(r.value))])
             ELSE [ok |-> FALSE, err |-> r.err, at |-> i]
        [] tok \in {Tok_o, Tok_output} ->
             LET r == get_next_arg(args, i, "output file") IN
             IF r.ok
             THEN ParseLoop(args, r.i, [acc EXCEPT !.output_file = Some(r.value)])
             ELSE [ok |-> FALSE, err |-> r.err, at |-> i]
        [] tok \in {Tok_c, Tok_case_sensitive} ->
             ParseLoop(args, i + 1, [acc EXCEPT !.case_sensitive = TRUE])
        [] tok \in {Tok_l, Tok_show_lines} ->
             ParseLoop(args, i + 1, [acc EXCEPT !.show_line_content = TRUE])
        [] tok \in {Tok_h, Tok_help} ->
             [ok |-> FALSE, err |-> usage, at |-> i]
        [] OTHER ->
             [ok |-> FALSE, err |-> [msg |-> "Unknown argument", tok |-> tok],
              at |-> i]

\* Config::new, given the arguments and the outcome of env::current_dir
Config_new(args, cwd) ==
    IF Len(args) < 3 THEN Err(usage)
    ELSE LET parsed == ParseLoop(args, 1, ParseStart) IN
      IF ~parsed.ok THEN parsed
      ELSE LET path == resolve_path(parsed.value.path, cwd) IN
        IF ~path.ok THEN path
        ELSE IF ~parsed.value.search_text.some
        THEN Err([msg |-> "Search text is required"])
        ELSE [ ok |-> TRUE,
               value |->
                 [ path |-> path.value,
                   search_text |-> parsed.value.search_text.val,
                   extensions |->
                     IF parsed.value.extensions.some
                     THEN parsed.value.extensions.val
                     ELSE DefaultExtensions,
                   case_sensitive |-> parsed.value.case_sensitive,
                   show_line_content |-> parsed.value.show_line_content,
                   output_file |-> parsed.value.output_file ] ]

(***************************************************************************)
(* The state of one run of main.                                           *)
(***************************************************************************)
VARIABLES
    args,            \* env::args(): the program name, then the tokens
    cwd,             \* the outcome of env::current_dir()
    bLines,          \* the lines of the file /r/sub/b.RS
    budget,          \* the I/O failures the environment may inject
    pc,              \* where main is
    config,          \* the Config built by Config::new
    writer,          \* the OutputWriter of search: "none", "Console", "File"
    outFile,         \* the output file on disk: [exists, lines]
    stdout,          \* the lines printed to standard output
    stderr,          \* the lines printed to standard error
    exitCode,        \* the exit code of the process, -1 while it runs
    matches,         \* SearchEngine.matches
    files_searched,  \* SearchEngine.files_searched
    errors,          \* SearchEngine.errors
    stack,           \* the active calls of visit_dir: [dir, entries, idx]
    callDir,         \* the directory visit_dir has just been called with
    cur,             \* the file search_in_file is reading: [path, n]
    faults,          \* the I/O failures injected so far
    opened,          \* every File::open of the scanner: [path, ok]
    yielded          \* the entries the directory iterators have produced

vars ==
    << args, cwd, bLines, budget, pc, config, writer, outFile, stdout, stderr,
       exitCode, matches, files_searched, errors, stack, callDir, cur, faults, opened, yielded >>

Txt_Foo == <<"F","o","o">>
Txt_foo == <<"f","o","o">>
Txt_FOO == <<"F","O","O">>
Txt_bar == <<"b","a","r">>
Txt_padFoo == <<" ","F","o","o"," ">>
Txt_fooFoo == <<"f","o","o","F","o","o">>

\* the lines b.RS may hold
LineSet == {Txt_Foo, Txt_foo, Txt_FOO, Txt_bar, Txt_padFoo, Txt_fooFoo}

SeqsUpTo(S, n) == UNION {[1..k -> S] : k \in 0..n}

\* the output file, a relative path being taken from the current directory
OutPath == Absolute(config.output_file.val, cwd.path)

\* the lines of a file under the root, as BufRead::lines yields them
FileContent(path) ==
    IF path = File_b THEN bLines
    ELSE IF path = File_a THEN <<Txt_Foo, Txt_bar>>
    ELSE IF path \in StaticFiles THEN <<Txt_Foo>>
    ELSE IF config.output_file.some /\ outFile.exists /\ path = OutPath
    THEN outFile.lines
    ELSE <<>>

\* fs::read_dir(dir): the static entries, then the output file once created
Listing(dir) ==
    StaticListing(dir) \o
      ( IF /\ config.output_file.some
           /\ outFile.exists
           /\ ParentOf(OutPath) = dir
        THEN <<FileName(OutPath)>>
        ELSE <<>> )

is_dir(path) == path \in Dirs

is_file(path) ==
    \/ path \in StaticFiles
    \/ config.output_file.some /\ outFile.exists /\ path = OutPath

\* Path::extension: the text after the last dot of the file name, unless
\* the name has no dot or only a leading one
extension(path) ==
    LET name == FileName(path)
        k == LastIndexOf(name, ".")
    IN IF name = <<".",".">> \/ k = 0 \/ k = 1
       THEN None
       ELSE Some(SubSeq(name, k + 1, Len(name)))

\* a faulty variant: a file without extension is searched
should_search_file_NoExtension(path, extensions) ==
    LET ext == extension(path) IN
    \/ ~ext.some
    \/ \E k \in 1..Len(extensions) :
          eq_ignore_ascii_case(extensions[k], <<".">> \o ext.val)

should_search_file(path, extensions) ==
    LET ext == extension(path) IN
    /\ ext.some
    /\ \E k \in 1..Len(extensions) :
          eq_ignore_ascii_case(extensions[k], <<".">> \o ext.val)

\* search_text of search_in_file
search_text_normalized(cfg) ==
    IF cfg.case_sensitive THEN cfg.search_text ELSE to_lowercase(cfg.search_text)

\* a faulty variant: the line is never lowercased
line_to_check_Raw(line, cfg) == line

\* line_to_check of search_in_file
line_to_check(line, cfg) ==
    IF cfg.case_sensitive THEN line ELSE to_lowercase(line)

\* Match::new for line number n (counted from 0 by enumerate)
Match_new(path, n, line, cfg) ==
    [ file_path |-> path,
      line_number |-> n + 1,
      line_content |-> IF cfg.show_line_content THEN Some(line) ELSE None ]

\* a faulty variant: the file is counted only once a line of it has matched
files_searched_AfterOpen_Skip(n) == n

\* files_searched += 1
files_searched_AfterOpen(n) == n + 1

(***************************************************************************)
(* The texts of the report.                                                *)
(***************************************************************************)
Reason == <<"E","I","O">>

ErrorText(e) ==
    CASE e.kind = "read_dir" ->
           <<"C","o","u","l","d"," ","n","o","t"," ","r","e","a","d"," ",
             "d","i","r","e","c","t","o","r","y"," ">> \o e.path \o <<":"," ">> \o Reason
      [] e.kind = "entry" ->
           <<"C","o","u","l","d"," ","n","o","t"," ","r","e","a","d"," ",
             "e","n","t","r","y"," ","i","n"," ">> \o e.path \o <<":"," ">> \o Reason
      [] e.kind = "open" ->
           <<"C","o","u","l","d"," ","n","o","t"," ","o","p","e","n"," ",
             "f","i","l","e"," ">> \o e.path \o <<":"," ">> \o Reason
      [] e.kind = "line" ->
           <<"C","o","u","l","d"," ","n","o","t"," ","r","e","a","d"," ",
             "l","i","n","e"," ">> \o NatToStr(e.line) \o
           <<" ","i","n"," ","f","i","l","e"," ">> \o e.path \o <<":"," ">> \o Reason

Lit_Searching == <<"S","e","a","r","c","h","i","n","g"," ","f","o","r"," ","\"">>
Lit_in == <<"\""," ","i","n"," ">>
Lit_subfolders ==
    <<" ","a","n","d"," ","a","l","l"," ","s","u","b","f","o","l","d","e","r","s",
      ".",".",".">>
Lit_CaseSensitive ==
    <<"C","a","s","e","-","s","e","n","s","i","t","i","v","e"," ","s","e","a","r",
      "c","h"," ","e","n","a","b","l","e","d">>
Lit_Extensions == <<"E","x","t","e","n","s","i","o","n","s",":"," ">>
Lit_NoMatches == <<"N","o"," ","m","a","t","c","h","e","s"," ","f","o","u","n","d",".">>
Lit_Found == <<"F","o","u","n","d"," ">>
Lit_matches_in == <<" ","m","a","t","c","h","e","s"," ","i","n"," ">>
Lit_files == <<" ","f","i","l","e","s",":">>
Lit_Line == <<" ","(","L","i","n","e"," ">>
Lit_Summary == <<"S","u","m","m","a","r","y",":"," ">>
Lit_files_searched ==
    <<" ","f","i","l","e","s"," ","s","e","a","r","c","h","e","d",","," ">>
Lit_matches_found == <<" ","m","a","t","c","h","e","s"," ","f","o","u","n","d">>
Lit_Errors ==
    <<"E","r","r","o","r","s"," ","e","n","c","o","u","n","t","e","r","e","d",":">>
Lit_Written ==
    <<"R","e","s","u","l","t","s"," ","h","a","v","e"," ","b","e","e","n"," ",
      "w","r","i","t","t","e","n"," ","t","o",":"," ">>

\* Match::format_output
format_output(m, cfg) ==
    IF cfg.show_line_content /\ m.line_content.some
    THEN m.file_path \o Lit_Line \o NatToStr(m.line_number) \o <<")",":"," ">>
           \o Trim(m.line_content.val)
    ELSE m.file_path \o Lit_Line \o NatToStr(m.line_number) \o <<")">>

\* a faulty variant: the line for an empty result is written with the header
HeaderLines_WithResult(cfg) ==
    << Lit_Searching \o cfg.search_text \o Lit_in \o cfg.path \o Lit_subfolders >>
    \o (IF cfg.case_sensitive THEN <<Lit_CaseSensitive>> ELSE <<>>)
    \o << Lit_Extensions \o Join(cfg.extensions, <<","," ">>), <<>>,
          Lit_NoMatches >>

\* the lines search writes before it calls visit_dir
HeaderLines(cfg) ==
    << Lit_Searching \o cfg.search_text \o Lit_in \o cfg.path \o Lit_subfolders >>
    \o (IF cfg.case_sensitive THEN <<Lit_CaseSensitive>> ELSE <<>>)
    \o << Lit_Extensions \o Join(cfg.extensions, <<","," ">>), <<>> >>

\* a faulty variant: the errors are written before the summary
ReportLines_ErrorsFirst(cfg, ms, n, errs) ==
    ( IF ms = <<>>
      THEN <<Lit_NoMatches>>
      ELSE << Lit_Found \o NatToStr(Len(ms)) \o Lit_matches_in \o NatToStr(n)
                \o Lit_files,
              <<>> >>
           \o [k \in 1..Len(ms) |-> format_output(ms[k], cfg)] )
    \o ( IF errs # <<>>
         THEN << <<>>, Lit_Errors >>
              \o [k \in 1..Len(errs) |-> <<" "," ">> \o ErrorText(errs[k])]
         ELSE <<>> )
    \o << <<>>,
          Lit_Summary \o NatToStr(n) \o Lit_files_searched
            \o NatToStr(Len(ms)) \o Lit_matches_found >>

\* the lines search writes after visit_dir has returned
ReportLines(cfg, ms, n, errs) ==
    ( IF ms = <<>>
      THEN <<Lit_NoMatches>>
      ELSE << Lit_Found \o NatToStr(Len(ms)) \o Lit_matches_in \o NatToStr(n)
                \o Lit_files,
              <<>> >>
           \o [k \in 1..Len(ms) |-> format_output(ms[k], cfg)] )
    \o << <<>>,
          Lit_Summary \o NatToStr(n) \o Lit_files_searched
            \o NatToStr(Len(ms)) \o Lit_matches_found >>
    \o ( IF errs # <<>>
         THEN << <<>>, Lit_Errors >>
              \o [k \in 1..Len(errs) |-> <<" "," ">> \o ErrorText(errs[k])]
         ELSE <<>> )

(***************************************************************************)
(* The run: main, SearchEngine::search, visit_dir, search_in_file.         *)
(***************************************************************************)
NoConfig == [ path |-> <<>>, search_text |-> <<>>, extensions |-> <<>>,
              case_sensitive |-> FALSE, show_line_content |-> FALSE,
              output_file |-> None ]

\* the state main starts in, whatever the command line and the files are
InitRun ==
    /\ pc = "main"
    /\ config = NoConfig
    /\ writer = "none"
    /\ outFile = [exists |-> FALSE, lines |-> <<>>]
    /\ stdout = <<>>
    /\ stderr = <<>>
    /\ exitCode = -1
    /\ matches = <<>>
    /\ files_searched = 0
    /\ errors = <<>>
    /\ stack = <<>>
    /\ callDir = None
    /\ cur = None
    /\ faults = 0
    /\ opened = <<>>
    /\ yielded = {}

CwdOk == [ok |-> TRUE, path |-> RootDir]
CwdFailed == [ok |-> FALSE]

Val_out_rel == Name_o_txt
Val_out_tmp == <<"/","t","/","o",".","t","x","t">>
Val_out_missing == <<"/","x","/","o",".","t","x","t">>
Val_rs == <<"r","s">>

\* the command lines of the runs of Spec
ScanArgs ==
    { <<Prog, Tok_s, Txt_Foo>>,
      <<Prog, Tok_s, Txt_Foo, Tok_c>>,
      <<Prog, Tok_s, Txt_Foo, Tok_l, Tok_o, Val_out_rel>>,
      <<Prog, Tok_search, Txt_Foo, Tok_output, Val_out_tmp>>,
      <<Prog, Tok_s, Txt_Foo, Tok_o, Val_out_missing>>,
      <<Prog, Tok_path, SubDir, Tok_s, Txt_foo, Tok_e, Val_rs, Tok_c>>,
      <<Prog, Tok_p, MissingDir, Tok_s, Txt_Foo>>,
      <<Prog, Tok_s>> }

Init ==
    /\ args \in ScanArgs
    /\ cwd \in {CwdOk, CwdFailed}
    /\ bLines \in {<<>>, <<Txt_foo, Txt_bar>>}
    /\ budget = MaxFaults
    /\ InitRun

\* main, when search has returned an error
main_SearchFailed ==
    /\ stderr' = Append(stderr, [msg |-> "Search failed"])
    /\ exitCode' = 1
    /\ pc' = "done"

\* main: Config::new, and the exit when it fails
main_Config_new ==
    /\ pc = "main"
    /\ LET r == Config_new(args, cwd) IN
       IF r.ok
       THEN /\ config' = r.value
            /\ pc' = "create"
            /\ UNCHANGED <<stderr, exitCode>>
       ELSE /\ stderr' = Append(stderr, r.err)
            /\ exitCode' = 1
            /\ pc' = "done"
            /\ UNCHANGED config
    /\ UNCHANGED << args, cwd, bLines, budget, writer, outFile, stdout, matches,
                    files_searched, errors, stack, callDir, cur, faults,
                    opened, yielded >>

\* whether File::create(path) can succeed, can fail
CreateOutcomes ==
    IF ~IsAbsolute(config.output_file.val) /\ ~cwd.ok THEN {FALSE}
    ELSE IF ParentOf(OutPath) \notin Dirs THEN {FALSE}
    ELSE IF faults < budget THEN {TRUE, FALSE}
    ELSE {TRUE}

\* search: OutputWriter::new
OutputWriter_new ==
    /\ pc = "create"
    /\ IF ~config.output_file.some
       THEN /\ writer' = "Console"
            /\ pc' = "header"
            /\ UNCHANGED <<outFile, stderr, exitCode, faults>>
       ELSE \E ok \in CreateOutcomes :
              IF ok
              THEN /\ writer' = "File"
                   /\ outFile' = [exists |-> TRUE, lines |-> <<>>]
                   /\ pc' = "header"
                   /\ UNCHANGED <<stderr, exitCode, faults>>
              ELSE /\ main_SearchFailed
                   /\ faults' = IF ParentOf(OutPath) \in Dirs /\ cwd.ok
                                THEN faults + 1 ELSE faults
                   /\ UNCHANGED <<writer, outFile>>
    /\ UNCHANGED << args, cwd, bLines, budget, config, stdout, matches, files_searched,
                    errors, stack, callDir, cur, opened, yielded >>

\* OutputWriter::writeln for each of the first k lines
WriteLines(lines, k) ==
    IF writer = "File"
    THEN /\ outFile' = [outFile EXCEPT !.lines = @ \o SubSeq(lines, 1, k)]
         /\ UNCHANGED stdout
    ELSE /\ stdout' = stdout \o SubSeq(lines, 1, k)
         /\ UNCHANGED outFile

\* a faulty variant: a write to standard output can fail like a write to the file
WriteOutcomes_AnySink(lines) ==
    IF faults < budget THEN 0..Len(lines) ELSE {Len(lines)}

\* the number of lines written when the writes of lines are made in turn:
\* all of them, or those before a write to the file that fails
WriteOutcomes(lines) ==
    IF writer = "File" /\ faults < budget
    THEN 0..Len(lines)
    ELSE {Len(lines)}

\* search: the header, then the call of visit_dir with the root
search_Header ==
    /\ pc = "header"
    /\ LET lines == HeaderLines(config) IN
       \E k \in WriteOutcomes(lines) :
         /\ WriteLines(lines, k)
         /\ IF k = Len(lines)
            THEN /\ pc' = "visit"
                 /\ callDir' = Some(config.path)
                 /\ UNCHANGED <<stderr, exitCode, faults>>
            ELSE /\ main_SearchFailed
                 /\ faults' = faults + 1
                 /\ UNCHANGED callDir
    /\ UNCHANGED << args, cwd, bLines, budget, config, writer, matches,
                    files_searched, errors, stack, cur, opened, yielded >>

\* what follows the return of a call of visit_dir: the caller's loop, or,
\* for the call made by search, the report
AfterReturn(stk) == IF stk = <<>> THEN "report" ELSE "visit"

ReadDirOutcomes == IF faults < budget THEN {TRUE, FALSE} ELSE {TRUE}

\* visit_dir: fs::read_dir(dir), and the return when it fails
visit_dir_ReadDir ==
    /\ pc = "visit"
    /\ callDir.some
    /\ LET dir == callDir.val IN
       \E ok \in ReadDirOutcomes :
         IF ok
         THEN /\ stack' = Append(stack,
                    [dir |-> dir, entries |-> Listing(dir), idx |-> 1])
              /\ UNCHANGED <<errors, faults, pc>>
         ELSE /\ errors' = Append(errors,
                    [kind |-> "read_dir", path |-> dir, line |-> 0])
              /\ faults' = faults + 1
              /\ pc' = AfterReturn(stack)
              /\ UNCHANGED stack
    /\ callDir' = None
    /\ UNCHANGED << args, cwd, bLines, budget, config, writer, outFile, stdout, stderr,
                    exitCode, matches, files_searched, cur, opened,
                    yielded >>

\* the loop of visit_dir is at an entry of the innermost directory
AtEntry ==
    /\ pc = "visit"
    /\ ~callDir.some
    /\ ~cur.some
    /\ stack # <<>>
    /\ stack[Len(stack)].idx <= Len(stack[Len(stack)].entries)

Top == stack[Len(stack)]
EntryPath == PathJoin(Top.dir, Top.entries[Top.idx])
Advance == [stack EXCEPT ![Len(stack)].idx = @ + 1]

\* visit_dir: the iterator yields an error for the entry
visit_dir_EntryError ==
    /\ AtEntry
    /\ faults < budget
    /\ errors' = Append(errors, [kind |-> "entry", path |-> Top.dir, line |-> 0])
    /\ faults' = faults + 1
    /\ stack' = Advance
    /\ yielded' = yielded \cup {[path |-> EntryPath, ok |-> FALSE]}
    /\ UNCHANGED << args, cwd, bLines, budget, pc, config, writer, outFile, stdout,
                    stderr, exitCode, matches, files_searched, callDir, cur,
                    opened >>

\* visit_dir: the entry is a directory, visit_dir is called with it
visit_dir_Recurse ==
    /\ AtEntry
    /\ is_dir(EntryPath)
    /\ callDir' = Some(EntryPath)
    /\ stack' = Advance
    /\ yielded' = yielded \cup {[path |-> EntryPath, ok |-> TRUE]}
    /\ UNCHANGED << args, cwd, bLines, budget, pc, config, writer, outFile, stdout,
                    stderr, exitCode, matches, files_searched, errors, cur,
                    faults, opened >>

\* visit_dir: the entry is neither a directory nor a file to search
visit_dir_Skip ==
    /\ AtEntry
    /\ ~is_dir(EntryPath)
    /\ ~(is_file(EntryPath) /\ should_search_file(EntryPath, config.extensions))
    /\ stack' = Advance
    /\ yielded' = yielded \cup {[path |-> EntryPath, ok |-> TRUE]}
    /\ UNCHANGED << args, cwd, bLines, budget, pc, config, writer, outFile, stdout,
                    stderr, exitCode, matches, files_searched, errors, callDir,
                    cur, faults, opened >>

OpenOutcomes == IF faults < budget THEN {TRUE, FALSE} ELSE {TRUE}

\* visit_dir: the entry is a file to search; search_in_file up to its loop
search_in_file_Open ==
    /\ AtEntry
    /\ ~is_dir(EntryPath)
    /\ is_file(EntryPath) /\ should_search_file(EntryPath, config.extensions)
    /\ stack' = Advance
    /\ yielded' = yielded \cup {[path |-> EntryPath, ok |-> TRUE]}
    /\ \E ok \in OpenOutcomes :
         /\ opened' = Append(opened, [path |-> EntryPath, ok |-> ok])
         /\ IF ok
            THEN /\ files_searched' = files_searched_AfterOpen(files_searched)
                 /\ cur' = Some([path |-> EntryPath, n |-> 0])
                 /\ UNCHANGED <<errors, faults>>
            ELSE /\ errors' = Append(errors,
                       [kind |-> "open", path |-> EntryPath, line |-> 0])
                 /\ faults' = faults + 1
                 /\ UNCHANGED <<files_searched, cur>>
    /\ UNCHANGED << args, cwd, bLines, budget, pc, config, writer, outFile, stdout,
                    stderr, exitCode, matches, callDir >>

LineOutcomes == IF faults < budget THEN {TRUE, FALSE} ELSE {TRUE}

\* search_in_file: one turn of the loop over reader.lines()
search_in_file_Line ==
    /\ pc = "visit"
    /\ cur.some
    /\ LET path == cur.val.path
           n == cur.val.n
           lines == FileContent(path)
       IN
       /\ n < Len(lines)
       /\ \E ok \in LineOutcomes :
            IF ok
            THEN /\ matches' =
                      IF contains(line_to_check(lines[n + 1], config),
                                  search_text_normalized(config))
                      THEN Append(matches, Match_new(path, n, lines[n + 1], config))
                      ELSE matches
                 /\ cur' = Some([path |-> path, n |-> n + 1])
                 /\ UNCHANGED <<errors, faults>>
            ELSE /\ errors' = Append(errors,
                       [kind |-> "line", path |-> path, line |-> n + 1])
                 /\ faults' = faults + 1
                 /\ cur' = None
                 /\ UNCHANGED matches
    /\ UNCHANGED << args, cwd, bLines, budget, pc, config, writer, outFile, stdout,
                    stderr, exitCode, files_searched, stack, callDir, opened, yielded >>

\* search_in_file: reader.lines() is exhausted, the function returns
search_in_file_End ==
    /\ pc = "visit"
    /\ cur.some
    /\ cur.val.n >= Len(FileContent(cur.val.path))
    /\ cur' = None
    /\ UNCHANGED << args, cwd, bLines, budget, pc, config, writer, outFile, stdout,
                    stderr, exitCode, matches, files_searched, errors, stack,
                    callDir, faults, opened, yielded >>

\* visit_dir: the entries are exhausted, the call returns Ok
visit_dir_Return ==
    /\ pc = "visit"
    /\ ~callDir.some
    /\ ~cur.some
    /\ stack # <<>>
    /\ Top.idx > Len(Top.entries)
    /\ stack' = SubSeq(stack, 1, Len(stack) - 1)
    /\ pc' = AfterReturn(SubSeq(stack, 1, Len(stack) - 1))
    /\ UNCHANGED << args, cwd, bLines, budget, config, writer, outFile, stdout, stderr,
                    exitCode, matches, files_searched, errors, callDir, cur,
                    faults, opened, yielded >>

\* search: the report after visit_dir has returned, the note on standard
\* output, and the return to main
search_Report ==
    /\ pc = "report"
    /\ LET lines == ReportLines(config, matches, files_searched, errors) IN
       \E k \in WriteOutcomes(lines) :
         IF k = Len(lines)
         THEN /\ IF writer = "File"
                 THEN /\ outFile' = [outFile EXCEPT !.lines = @ \o lines]
                      /\ stdout' = Append(stdout,
                                     Lit_Written \o config.output_file.val)
                 ELSE /\ stdout' = stdout \o lines
                      /\ UNCHANGED outFile
              /\ exitCode' = 0
              /\ pc' = "done"
              /\ UNCHANGED <<stderr, faults>>
         ELSE /\ WriteLines(lines, k)
              /\ main_SearchFailed
              /\ faults' = faults + 1
    /\ UNCHANGED << args, cwd, bLines, budget, config, writer, matches,
                    files_searched, errors, stack, callDir, cur, opened,
                    yielded >>

Next ==
    \/ main_Config_new
    \/ OutputWriter_new
    \/ search_Header
    \/ visit_dir_ReadDir
    \/ visit_dir_EntryError
    \/ visit_dir_Recurse
    \/ visit_dir_Skip
    \/ search_in_file_Open
    \/ search_in_file_Line
    \/ search_in_file_End
    \/ visit_dir_Return
    \/ search_Report

Spec == Init /\ [][Next]_vars

(***************************************************************************)
(* Runs that vary the lines of b.RS, searched from /r/sub.                 *)
(***************************************************************************)
MatchArgs ==
    { <<Prog, Tok_p, SubDir, Tok_s, Txt_Foo>>,
      <<Prog, Tok_p, SubDir, Tok_s, Txt_Foo, Tok_c>>,
      <<Prog, Tok_p, SubDir, Tok_s, Txt_Foo, Tok_l>> }

InitMatch ==
    /\ args \in MatchArgs
    /\ cwd = CwdOk
    /\ bLines \in SeqsUpTo(LineSet, MaxLines)
    /\ budget = MaxMatchFaults
    /\ InitRun

SpecMatch == InitMatch /\ [][Next]_vars

(***************************************************************************)
(* Config::new on every command line of up to MaxArgs tokens.              *)
(***************************************************************************)
Val_empty == <<>>
Val_blank == <<" ">>
Val_dot == <<".">>
Val_star == <<"*">>

ArgTokens ==
    { Tok_p, Tok_s, Tok_e, Tok_o, Tok_c, Tok_l, Tok_h,
      Txt_Foo, Val_empty, Val_blank, Val_dot, Val_star, MissingDir, File_a }

InitArgs ==
    /\ args \in {<<Prog>> \o t : t \in SeqsUpTo(ArgTokens, MaxArgs)}
    /\ cwd \in {CwdOk, CwdFailed}
    /\ bLines = <<>>
    /\ budget = 0
    /\ InitRun

SpecArgs == InitArgs /\ [][main_Config_new]_vars

(***************************************************************************)
(* Config::new on every value of -e of up to MaxExtLen characters.         *)
(***************************************************************************)
ExtChars == {" ", ",", ".", "r", "S"}

InitExt ==
    /\ args \in {<<Prog, Tok_s, Txt_Foo, Tok_e, raw>> :
                   raw \in SeqsUpTo(ExtChars, MaxExtLen)}
    /\ cwd = CwdOk
    /\ bLines = <<>>
    /\ budget = 0
    /\ InitRun

SpecExt == InitExt /\ [][main_Config_new]_vars

(***************************************************************************)
(* What the properties below speak of.                                     *)
(***************************************************************************)
\* the lines the sink holds: the output file, or else standard output
SinkLines == IF writer = "File" THEN outFile.lines ELSE stdout

\* the traversal started by search has returned
TraversalOver == pc = "report" \/ (pc = "done" /\ exitCode = 0)

OpenedPaths == {opened[k].path : k \in 1..Len(opened)}
OpenedOk == {opened[k].path : k \in {j \in 1..Len(opened) : opened[j].ok}}
YieldedPaths == {y.path : y \in yielded}

\* pat occurs in text, character by character
Occurs(pat, text) ==
    \E k \in 1..Len(text) :
       /\ k + Len(pat) - 1 <= Len(text)
       /\ \A j \in 1..Len(pat) : text[k + j - 1] = pat[j]

\* line contains the needle, both lowercased unless the search is
\* case-sensitive
ExpectedHit(line) ==
    IF config.case_sensitive
    THEN Occurs(config.search_text, line)
    ELSE Occurs(to_lowercase(config.search_text), to_lowercase(line))

\* the line numbers of the Matches recorded for file f, in order
MatchedLines(f) ==
    LET ms == SelectSeq(matches, LAMBDA m : m.file_path = f)
    IN [k \in 1..Len(ms) |-> ms[k].line_number]

\* the numbers among 1..n of the lines of f that contain the needle, ascending
RECURSIVE HitsUpTo(_, _)
HitsUpTo(f, n) ==
    IF n = 0 THEN <<>>
    ELSE HitsUpTo(f, n - 1)
           \o (IF ExpectedHit(FileContent(f)[n]) THEN <<n>> ELSE <<>>)

HasLineError(f) ==
    \E k \in 1..Len(errors) : errors[k].kind = "line" /\ errors[k].path = f

\* C1: for every file that search_in_file has opened and read to its end
\* without a line-read error, the line numbers of its Matches are exactly,
\* and in ascending order, the numbers of its lines that contain the needle
\* (lowercased on both sides unless case_sensitive); while a file is being
\* read the same holds of the lines read so far.  With the needle "Foo" the
\* lines "FOO", "foo" and "Foo" all match when case_sensitive is false, and
\* only "Foo" when it is true.
C1_MatchesAreExactlyTheHits ==
    /\ \A f \in OpenedOk :
         IF cur.some /\ cur.val.path = f
         THEN MatchedLines(f) = HitsUpTo(f, cur.val.n)
         ELSE ~HasLineError(f) =>
                MatchedLines(f) = HitsUpTo(f, Len(FileContent(f)))
    /\ \A k \in 1..Len(matches) :
         /\ matches[k].line_number >= 1
         /\ matches[k].line_content =
              IF config.show_line_content
              THEN Some(FileContent(matches[k].file_path)
                          [matches[k].line_number])
              ELSE None
    /\ (pc = "done" /\ exitCode = 0 /\ errors = <<>>
          /\ config.search_text = Txt_Foo) =>
         \A n \in 1..Len(bLines) :
            bLines[n] \in {Txt_Foo, Txt_foo, Txt_FOO} =>
              ( (\E k \in 1..Len(matches) :
                    matches[k].file_path = File_b /\ matches[k].line_number = n)
                <=> (~config.case_sensitive \/ bLines[n] = Txt_Foo) )

\* a finished case-insensitive run over "FOO", "foo": both lines matched
C1_Witness ==
    /\ pc = "done" /\ exitCode = 0
    /\ ~config.case_sensitive
    /\ bLines = <<Txt_FOO, Txt_foo>>
    /\ MatchedLines(File_b) = <<1, 2>>

\* the dotted final extension of p equals an element of extensions, the
\* case of the letters apart
ExtensionListed(p) ==
    /\ extension(p).some
    /\ \E k \in 1..Len(config.extensions) :
          to_lowercase(config.extensions[k])
            = to_lowercase(<<".">> \o extension(p).val)

\* C2: every file the Scanner has tried to open, and so every file named by
\* a Match or by a "Could not open file" / "Could not read line" error, is
\* a regular file whose dotted final extension equals an element of
\* extensions case-insensitively; no other file is opened.
C2_ExtensionFilterSound ==
    /\ \A p \in OpenedPaths : is_file(p) /\ ExtensionListed(p)
    /\ \A k \in 1..Len(matches) : matches[k].file_path \in OpenedOk
    /\ \A k \in 1..Len(errors) :
         errors[k].kind \in {"open", "line"} => errors[k].path \in OpenedPaths
    /\ OpenedPaths \cap {File_c, File_hidden, File_n, Fifo_p, EmptyDir} = {}

\* b.RS was opened for the default list, which holds ".rs", and c.md, the
\* file without extension and the directory d.txt were passed over
C2_Witness ==
    /\ pc = "done"
    /\ File_b \in OpenedPaths
    /\ {File_c, File_n, EmptyDir} \subseteq YieldedPaths
    /\ \E k \in 1..Len(errors) : errors[k].kind = "open"

\* C3: at every point of a scan files_searched is the number of files the
\* Scanner has opened successfully so far; a failed open does not count; a
\* file counts from its open on, also when it is empty or when a line-read
\* error ends its reading.
C3_FilesSearchedCountsOpens ==
    /\ files_searched = Len(SelectSeq(opened, LAMBDA o : o.ok))
    /\ files_searched = Cardinality(OpenedOk)
    /\ cur.some => cur.val.path \in OpenedOk /\ files_searched >= 1
    /\ \A k \in 1..Len(errors) :
         /\ errors[k].kind = "line" => errors[k].path \in OpenedOk
         /\ errors[k].kind = "open" => errors[k].path \notin OpenedOk

\* a finished run in which an open failed, the empty b.RS was opened and a
\* line of a.txt could not be read: two files are counted
C3_Witness ==
    /\ pc = "done" /\ exitCode = 0
    /\ bLines = <<>>
    /\ File_b \in OpenedOk
    /\ HasLineError(File_a)
    /\ \E k \in 1..Len(errors) : errors[k].kind = "open"
    /\ files_searched = 2

\* directory d has been listed: visit_dir was called with it and read_dir
\* did not fail
ListedOk(d) ==
    /\ d = config.path \/ [path |-> d, ok |-> TRUE] \in yielded
    /\ ~\E k \in 1..Len(errors) :
          errors[k].kind = "read_dir" /\ errors[k].path = d

\* C4: recoverable errors never abort the scan.  Once the traversal is
\* over, every entry of every directory that could be listed has been
\* produced by its iterator, every directory among them has been entered
\* and every file among them that passes the filter has been opened; a run
\* whose sink takes every line ends with exit code 0, whatever errors were
\* recorded; and its report ends with a blank line, "Errors encountered:"
\* and the errors in the order they were recorded, after the summary line,
\* with no error line before it.
C4_RecoverableErrorsDoNotAbort ==
    /\ TraversalOver =>
         \A d \in Dirs : ListedOk(d) =>
           \A k \in 1..Len(Listing(d)) :
              LET p == PathJoin(d, Listing(d)[k]) IN
              /\ p \in YieldedPaths
              /\ [path |-> p, ok |-> TRUE] \in yielded =>
                   /\ is_dir(p) =>
                        \/ ListedOk(p)
                        \/ \E j \in 1..Len(errors) :
                              errors[j].kind = "read_dir" /\ errors[j].path = p
                   /\ (is_file(p) /\ ExtensionListed(p)) => p \in OpenedPaths
    /\ (pc = "done" /\ writer = "Console") => exitCode = 0
    /\ (pc = "done" /\ exitCode = 0) =>
         LET L == SinkLines
             ne == Len(errors)
         IN IF ne = 0
            THEN /\ StartsWith(L[Len(L)], Lit_Summary)
                 /\ \A i \in 1..Len(L) : L[i] # Lit_Errors
            ELSE /\ Len(L) >= ne + 3
                 /\ \A k \in 1..ne :
                      L[Len(L) - ne + k] = <<" "," ">> \o ErrorText(errors[k])
                 /\ L[Len(L) - ne] = Lit_Errors
                 /\ L[Len(L) - ne - 1] = <<>>
                 /\ StartsWith(L[Len(L) - ne - 2], Lit_Summary)
                 /\ \A i \in 1..(Len(L) - ne - 1) :
                      ~StartsWith(L[i], <<" "," ","C","o","u","l","d">>)

\* a run that recorded three errors of different kinds, found a match
\* after them and ended with exit code 0
C4_Witness ==
    /\ pc = "done" /\ exitCode = 0
    /\ Len(errors) = 3
    /\ {errors[k].kind : k \in 1..3} = {"entry", "read_dir", "line"}
    /\ matches # <<>>

\* C5 as stated: a run that ends with exit code 1 has written no report
\* line and has opened no file under the root.
C5_FatalBeforeAnyOutput ==
    (pc = "done" /\ exitCode = 1) =>
       /\ SinkLines = <<>> /\ outFile.lines = <<>> /\ stdout = <<>>
       /\ opened = <<>>

\* C5, amended: exit code 1 comes only from a failed Config::new, a failed
\* creation of the output file, or a failed write of a line to the output
\* file.  In the first two cases nothing has been written and no directory
\* or file under the root has been read; a failed write leaves the note
\* "Results have been written to" unprinted.  A run that reports on
\* standard output and has passed Config::new never ends with exit code 1.
C5_FatalCauses ==
    exitCode = 1 =>
       /\ pc = "done"
       /\ Len(stderr) = 1
       /\ IF writer = "none"
          THEN /\ outFile.lines = <<>> /\ stdout = <<>>
               /\ opened = <<>> /\ yielded = {} /\ errors = <<>>
               /\ (stderr[1] = [msg |-> "Search failed"]) <=> (config # NoConfig)
               /\ config # NoConfig => config.output_file.some
          ELSE /\ writer = "File"
               /\ stderr[1] = [msg |-> "Search failed"]
               /\ stdout = <<>>

\* a write to the output file failed after the header was written and a
\* file was searched
C5_Witness ==
    /\ pc = "done" /\ exitCode = 1
    /\ writer = "File"
    /\ outFile.lines # <<>>
    /\ opened # <<>>

\* C6 as stated: no line is in the sink before the traversal has finished.
C6_NoOutputBeforeScanEnds ==
    SinkLines # <<>> => pc \in {"report", "done"}

\* L is the header: the "Searching for" line, the case-sensitive line when
\* the search is case-sensitive, the "Extensions:" line and a blank line
IsHeader(L) ==
    /\ Len(L) = IF config.case_sensitive THEN 4 ELSE 3
    /\ StartsWith(L[1], Lit_Searching \o config.search_text)
    /\ config.case_sensitive => L[2] = Lit_CaseSensitive
    /\ StartsWith(L[Len(L) - 1], Lit_Extensions)
    /\ L[Len(L)] = <<>>

\* C6, amended: the header is written before the traversal starts; nothing
\* else, no match line, no summary, no error line and no note on standard
\* output, is written before the traversal has finished.
C6_OnlyHeaderBeforeScanEnds ==
    /\ pc \in {"main", "create", "header"} => SinkLines = <<>> /\ stdout = <<>>
    /\ pc = "visit" =>
         /\ IsHeader(SinkLines)
         /\ writer = "File" => stdout = <<>>

\* in the middle of a scan to a file: a match is recorded, the sink holds
\* the header only
C6_Witness ==
    /\ pc = "visit"
    /\ writer = "File"
    /\ matches # <<>>
    /\ cur.some

\* C10 as stated, for one run: with an output file, every file the Scanner
\* opens and every file a Match names is a file that is under the root
\* without the run, so that files_searched and the matches are those of the
\* run that reports on standard output; no Match is a line of the report.
C10_SinkNotScanned ==
    config.output_file.some =>
       /\ OpenedPaths \subseteq StaticFiles
       /\ \A k \in 1..Len(matches) : matches[k].file_path \in StaticFiles

(***************************************************************************)
(* Properties of Config::new.                                              *)
(***************************************************************************)
ValueFlags ==
    {Tok_p, Tok_path, Tok_s, Tok_search, Tok_e, Tok_extensions, Tok_o, Tok_output}
BoolFlags == {Tok_c, Tok_case_sensitive, Tok_l, Tok_show_lines}

FlagName(tok) ==
    CASE tok \in {Tok_p, Tok_path} -> "path"
      [] tok \in {Tok_s, Tok_search} -> "search text"
      [] tok \in {Tok_e, Tok_extensions} -> "extensions"
      [] tok \in {Tok_o, Tok_output} -> "output file"

\* the tokens are a run of boolean flags and of value-taking flags each
\* followed by a value that is not blank
RECURSIVE WellFormed(_)
WellFormed(t) ==
    \/ t = <<>>
    \/ Head(t) \in BoolFlags /\ WellFormed(Tail(t))
    \/ /\ Len(t) >= 2
       /\ t[1] \in ValueFlags
       /\ Trim(t[2]) # <<>>
       /\ WellFormed(Tail(Tail(t)))

LastToken == args[Len(args)]
TokensBeforeLast == SubSeq(args, 2, Len(args) - 1)

\* C7 as stated: when a value-taking flag is the last token and the tokens
\* before it are well formed, Config::new fails with "Missing value for"
\* and the flag's name, also when the flag is the only token.
C7_MissingValue ==
    ( /\ pc # "main"
      /\ Len(args) >= 2
      /\ LastToken \in ValueFlags
      /\ WellFormed(TokensBeforeLast) ) =>
       /\ pc = "done"
       /\ stderr = <<[msg |-> "Missing value for", name |-> FlagName(LastToken)]>>

\* C7, amended: the same for every command line of at least two tokens; a
\* command line of fewer than two tokens, such as the single token -s,
\* fails with the usage text.
C7_MissingValueFromTwoTokens ==
    /\ ( /\ pc # "main"
         /\ Len(args) >= 3
         /\ LastToken \in ValueFlags
         /\ WellFormed(TokensBeforeLast) ) =>
          /\ pc = "done"
          /\ exitCode = 1
          /\ stderr =
               <<[msg |-> "Missing value for", name |-> FlagName(LastToken)]>>
    /\ (pc # "main" /\ Len(args) < 3) =>
          pc = "done" /\ exitCode = 1 /\ stderr = <<usage>>

\* "-s Foo -o": the value of -o is missing
C7_Witness ==
    /\ pc = "done"
    /\ args = <<Prog, Tok_s, Txt_Foo, Tok_o>>
    /\ stderr = <<[msg |-> "Missing value for", name |-> "output file"]>>

\* C8 as stated: with -p omitted, or given an empty or blank value, "." or
\* "*", and a needle given, Config::new succeeds with the current
\* directory as root; with any other value the root is that value, or
\* Config::new fails with "Path does not exist" or "Path is not a
\* directory".
C8_RootDefaultsToCwd ==
    (pc # "main" /\ cwd.ok) =>
       /\ args = <<Prog, Tok_s, Txt_Foo>> =>
            pc = "create" /\ config.path = cwd.path
       /\ ( /\ Len(args) = 5
            /\ \/ args[2] = Tok_p /\ args[4] = Tok_s /\ args[5] = Txt_Foo
               \/ args[4] = Tok_p /\ args[2] = Tok_s /\ args[3] = Txt_Foo ) =>
            LET v == IF args[2] = Tok_p THEN args[3] ELSE args[5] IN
            IF Trim(v) = <<>> \/ v = <<".">> \/ v = <<"*">>
            THEN pc = "create" /\ config.path = cwd.path
            ELSE IF ~PathExists(v, cwd)
            THEN pc = "done" /\ stderr[1].msg = "Path does not exist"
            ELSE IF ~PathIsDir(v, cwd)
            THEN pc = "done" /\ stderr[1].msg = "Path is not a directory"
            ELSE pc = "create" /\ config.path = v

(***************************************************************************)
(* Properties of the normalization of the -e list.                         *)
(***************************************************************************)
RawExtensions == args[5]

\* C9: each element of the -e list is normalized to its trimmed text with
\* one dot in front unless it has one; normalizing the result again, bare,
\* without its dot or with whitespace around it, gives the same token; so
\* b.RS passes the filter exactly when some element is "rs" or ".rs" in
\* any case and with any whitespace around it.
C9_NormalizationIdempotent ==
    (pc = "create" /\ Len(args) = 5 /\ args[4] = Tok_e) =>
       LET pieces == Split(RawExtensions, ",")
           exts == config.extensions
       IN
       /\ Len(exts) = Len(pieces)
       /\ \A k \in 1..Len(pieces) :
            LET t == Trim(pieces[k])
                e == exts[k]
                dotted == t # <<>> /\ t[1] = "."
            IN
            /\ e = IF dotted THEN t ELSE <<".">> \o t
            /\ NormalizeExtension(e) = e
            /\ NormalizeExtension(<<" ">> \o e \o <<" ","\t">>) = e
            /\ ~dotted =>
                 /\ NormalizeExtension(t) = e
                 /\ NormalizeExtension(<<".">> \o t) = e
                 /\ NormalizeExtension(<<" "," ">> \o t \o <<" ">>) = e
       /\ should_search_file(File_b, exts) <=>
            \E k \in 1..Len(pieces) :
               to_lowercase(Trim(pieces[k])) \in {<<"r","s">>, <<".","r","s">>}

\* "-e ' rS '": the one extension is ".rS", and b.RS passes the filter
C9_Witness ==
    /\ pc = "create"
    /\ RawExtensions = <<" ","r","S"," ">>
    /\ config.extensions = << <<".","r","S">> >>
    /\ should_search_file(File_b, config.extensions)

=============================================================================
